---- MODULE Spec2Model ----
(***************************************************************************)
(* Model of the imbue library (src/src/lib.rs) and of the request handler  *)
(* that drives it (src/src/main.rs): a dataset of DataPoints is turned     *)
(* into an ImbueContext, and one of the strategies average, zeroed or      *)
(* last_known synthesises the points of the missing axis positions.        *)
(*                                                                         *)
(* Numbers.  f64 is modelled as a binary floating-point format with the    *)
(* same rules as IEEE 754 binary64 (round to nearest, ties to even, a      *)
(* fixed smallest quantum, overflow to infinity) but with Precision        *)
(* significand bits instead of 53; a float is held as the integer number   *)
(* of quanta it is worth, the quantum being 1/Unit.  usize and i64 are     *)
(* modelled UsizeBits wide instead of 64.                                  *)
(***************************************************************************)
EXTENDS Integers, Sequences, FiniteSets, TLC

\* ------------------------------------------------------------------ bounds

\* longest dataset of a request
MaxLen == 3
\* the whole-number x of a request range up to MaxX
MaxX == 2
\* significand bits of the modelled f64
Precision == 4
\* width of the modelled usize and i64
UsizeBits == 16
\* the quantum of the modelled f64 is 2^-QuantumBits
QuantumBits == 1

\* ------------------------------------------------------- machine numbers

\* 1.0 is Unit quanta
Unit == 2 ^ QuantumBits

USIZE_MAX == 2 ^ UsizeBits - 1
ISIZE_MAX == 2 ^ (UsizeBits - 1) - 1
I64_MAX == 2 ^ (UsizeBits - 1) - 1
I64_MIN == -(2 ^ (UsizeBits - 1))

\* f64::MAX, the largest finite float: a full significand at the top exponent,
\* which lies above every usize and i64 as it does for binary64
F64_MAX == (2 ^ Precision - 1) * 2 ^ (UsizeBits + 1)
\* f64::MIN, the most negative finite float
F64_MIN == -F64_MAX
\* the infinities, as quanta counts beyond every finite float
F64_INFINITY == F64_MAX + 1
F64_NEG_INFINITY == -F64_INFINITY

RECURSIVE Quantum(_, _, _)
\* the spacing of the floats around num/den (num >= 0, den > 0), from e up
Quantum(num, den, e) ==
  IF num < den * (2 ^ Precision) * (2 ^ e) THEN 2 ^ e ELSE Quantum(num, den, e + 1)

\* num/den (num >= 0, den > 0) rounded to the nearest float, ties to even
RoundMagnitude(num, den) ==
  LET q == Quantum(num, den, 0)
      d == den * q
      lo == num \div d
      rem == num - lo * d
      up == (2 * rem > d) \/ (2 * rem = d /\ lo % 2 = 1)
      r == (IF up THEN lo + 1 ELSE lo) * q
  IN IF r > F64_MAX THEN F64_INFINITY ELSE r

\* the float nearest to the real number num/den (den > 0), in quanta
FRound(num, den) ==
  IF num >= 0 THEN RoundMagnitude(num, den) ELSE -RoundMagnitude(-num, den)

IsInfinite(a) == a = F64_INFINITY \/ a = F64_NEG_INFINITY

\* a + b on f64 (the sum of opposite infinities, a NaN, is never formed here)
FAdd(a, b) ==
  IF IsInfinite(a) THEN a
  ELSE IF IsInfinite(b) THEN b
  ELSE FRound(a + b, 1)

\* -a on f64
FNeg(a) == -a

\* a - b on f64
FSub(a, b) == FAdd(a, FNeg(b))

\* a.abs() on f64
FAbs(a) == IF a < 0 THEN -a ELSE a

\* a / b on f64, for finite a and finite b # 0
FDiv(a, b) ==
  LET num == FAbs(a) * Unit
      den == FAbs(b)
      mag == RoundMagnitude(num, den)
  IN IF (a < 0) = (b < 0) THEN mag ELSE -mag

\* `f as i64`: truncation toward zero, saturating at the ends of i64
F64AsI64(f) ==
  LET t == IF f >= 0 THEN f \div Unit ELSE -((-f) \div Unit)
  IN IF t > I64_MAX THEN I64_MAX ELSE IF t < I64_MIN THEN I64_MIN ELSE t

\* `f as usize`: truncation toward zero, saturating at 0 and usize::MAX
F64AsUsize(f) ==
  LET t == IF f >= 0 THEN f \div Unit ELSE 0
  IN IF t > USIZE_MAX THEN USIZE_MAX ELSE t

\* `i as f64` for an i64: the nearest float
I64AsF64(i) == FRound(i * Unit, 1)

\* `i as usize` for an i64: the two's complement bits reread as unsigned
I64AsUsize(i) == i % (2 ^ UsizeBits)

\* size_of::<DataPoint>(): two f64 fields
SizeOfDataPoint == 16

\* Vec::<DataPoint>::with_capacity(n) panics with "capacity overflow" when the
\* allocation would exceed isize::MAX bytes
CapacityOverflow(n) == n * SizeOfDataPoint > ISIZE_MAX

\* ---------------------------------------------------------------- DataPoint

\* DataPoint::new
DataPoint(x, y) == [x |-> x, y |-> y]

\* the x values of a request, in quanta: the whole numbers -1.0 .. MaxX, and
\* -0.5 and 0.5
XValues == {w * Unit : w \in (-1) .. MaxX} \cup {-(Unit \div 2), Unit \div 2}
\* the y values of a request, in quanta
YValues == {12, 26}

Points == {DataPoint(x, y) : x \in XValues, y \in YValues}

Datasets == UNION {[1 .. n -> Points] : n \in 0 .. MaxLen}

\* the outcome of a call: a panic, or a value
Panic == [panic |-> TRUE, value |-> <<>>]
Ok(v) == [panic |-> FALSE, value |-> v]

\* ------------------------------------------------------------- ImbueContext

\* min_and_max: the fold step, by raw comparison of the x values
min_and_max(accumulator, item) ==
  LET lo == IF item < accumulator[1] THEN item ELSE accumulator[1]
      hi == IF item > accumulator[2] THEN item ELSE accumulator[2]
  IN <<lo, hi>>

RECURSIVE FoldMinMax(_, _, _)
FoldMinMax(dataset, i, accumulator) ==
  IF i > Len(dataset) THEN accumulator
  ELSE FoldMinMax(dataset, i + 1, min_and_max(accumulator, dataset[i].x))

\* ImbueContext::axis_min_and_max: the fold seeded with (f64::MAX, f64::MIN)
axis_min_and_max(dataset) == FoldMinMax(dataset, 1, <<F64_MAX, F64_MIN>>)

\* total_count of ImbueContext::new: ((axis_max - axis_min).abs() + 1.0) as usize
TotalCount(dataset) ==
  LET mm == axis_min_and_max(dataset)
  IN F64AsUsize(FAdd(FAbs(FSub(mm[2], mm[1])), Unit))

\* ImbueContext::new.  total_count - dataset.len() is a usize subtraction: with
\* overflow checks (a debug build) it panics when it would go below zero,
\* without them (a release build) it wraps around.
ImbueContext_new(dataset, overflow_checks) ==
  LET mm == axis_min_and_max(dataset)
      total_count == TotalCount(dataset)
  IN IF overflow_checks /\ total_count < Len(dataset)
     THEN Panic
     ELSE Ok([dataset |-> dataset,
              axis_min |-> mm[1],
              axis_max |-> mm[2],
              total_count |-> total_count,
              imbue_count |-> (total_count - Len(dataset)) % (2 ^ UsizeBits)])

RECURSIVE Range(_, _)
\* the integers lo ..= hi in ascending order (none when lo > hi)
Range(lo, hi) == IF lo > hi THEN <<>> ELSE <<lo>> \o Range(lo + 1, hi)

\* ImbueContext::axis_range: axis_min as i64 ..= axis_max as i64
axis_range(context) == Range(F64AsI64(context.axis_min), F64AsI64(context.axis_max))

\* known_x with the x values rounded down instead of truncated toward zero
known_x_rounding_down(context) ==
  {context.dataset[i].x \div Unit : i \in 1 .. Len(context.dataset)}

\* ImbueContext::known_x: the set of the truncated x values
known_x(context) ==
  {F64AsI64(context.dataset[i].x) : i \in 1 .. Len(context.dataset)}

\* ------------------------------------------------------------------ average

RECURSIVE InsertByKey(_, _)
\* p put into the key-sorted sequence s after every element whose key is <= its own
InsertByKey(s, p) ==
  IF s = <<>> THEN <<p>>
  ELSE IF F64AsI64(Head(s).x) <= F64AsI64(p.x)
       THEN <<Head(s)>> \o InsertByKey(Tail(s), p)
       ELSE <<p>> \o s

RECURSIVE SortFrom(_, _, _)
SortFrom(dataset, i, sorted) ==
  IF i > Len(dataset) THEN sorted
  ELSE SortFrom(dataset, i + 1, InsertByKey(sorted, dataset[i]))

\* sort_by_key left out: the dataset in the order given
sort_by_key_skipped(dataset) == dataset

\* sort_by_key(|datapoint| datapoint.x as i64): a stable sort by truncated x
sort_by_key(dataset) == SortFrom(dataset, 1, <<>>)

\* the filter of average: window[0].x as i64 + 1 != window[1].x as i64
IsGapWindow(a, b) == F64AsI64(a.x) + 1 # F64AsI64(b.x)

\* windows(2).filter(..).map(..): the pairs of neighbours that pass the filter
GapWindows(sorted) ==
  SelectSeq([i \in 1 .. (IF Len(sorted) < 2 THEN 0 ELSE Len(sorted) - 1) |->
               <<sorted[i], sorted[i + 1]>>],
            LAMBDA w : IsGapWindow(w[1], w[2]))

\* missing_count of average_imbue_window
MissingCount(window) ==
  LET start == F64AsI64(window[1].x) + 1
      end == F64AsI64(window[2].x) - 1
  IN end - start + 1

\* delta without its sign: |y0 - y1| / (missing_count + 1) whichever way the
\* values go
Delta_unsigned(window) ==
  FDiv(FAbs(FSub(window[1].y, window[2].y)), I64AsF64(MissingCount(window) + 1))

\* delta of average_imbue_window: |y0 - y1| / (missing_count + 1), negated when
\* the values fall
Delta(window) ==
  LET d == FDiv(FAbs(FSub(window[1].y, window[2].y)),
                I64AsF64(MissingCount(window) + 1))
  IN IF window[1].y > window[2].y THEN FNeg(d) ELSE d

RECURSIVE WindowLoop(_, _, _, _)
\* for x in start..=end { push (x as f64, total_change); total_change += delta }
WindowLoop(x, end, total_change, delta) ==
  IF x > end THEN <<>>
  ELSE <<DataPoint(I64AsF64(x), total_change)>>
         \o WindowLoop(x + 1, end, FAdd(total_change, delta), delta)

\* average_imbue_window with total_change seeded at window.0.y, not a delta on
average_imbue_window_seeded_at_start(window) ==
  LET start == F64AsI64(window[1].x) + 1
      end == F64AsI64(window[2].x) - 1
      missing_count == MissingCount(window)
  IN IF CapacityOverflow(I64AsUsize(missing_count)) THEN Panic
     ELSE Ok(WindowLoop(start, end, window[1].y, Delta(window)))

\* average_imbue_window.  Vec::with_capacity(missing_count as usize) panics on
\* a capacity overflow; delta, computed before it, is then never used.
average_imbue_window(window) ==
  LET start == F64AsI64(window[1].x) + 1
      end == F64AsI64(window[2].x) - 1
      missing_count == MissingCount(window)
  IN IF CapacityOverflow(I64AsUsize(missing_count)) THEN Panic
     ELSE Ok(WindowLoop(start, end, FAdd(window[1].y, Delta(window)), Delta(window)))

RECURSIVE FlatMapWindows(_, _)
\* flat_map(average_imbue_window).collect(): the runs in order; a panic of one
\* call unwinds the whole collection
FlatMapWindows(windows, i) ==
  IF i > Len(windows) THEN Ok(<<>>)
  ELSE LET head == average_imbue_window(windows[i])
           rest == FlatMapWindows(windows, i + 1)
       IN IF head.panic \/ rest.panic THEN Panic
          ELSE Ok(head.value \o rest.value)

\* average
average(context) ==
  IF context.imbue_count = 0 THEN Ok(<<>>)
  ELSE FlatMapWindows(GapWindows(sort_by_key(context.dataset)), 1)

RECURSIVE CallsUntilPanic(_, _)
\* the windows average hands to average_imbue_window, up to the first call
\* that panics
CallsUntilPanic(windows, i) ==
  IF i > Len(windows) THEN <<>>
  ELSE IF average_imbue_window(windows[i]).panic THEN <<windows[i]>>
       ELSE <<windows[i]>> \o CallsUntilPanic(windows, i + 1)

AverageWindowCalls(context) ==
  IF context.imbue_count = 0 THEN <<>>
  ELSE CallsUntilPanic(GapWindows(sort_by_key(context.dataset)), 1)

\* ------------------------------------------------------------------- zeroed

\* zeroed
zeroed(context) ==
  IF context.imbue_count = 0 THEN Ok(<<>>)
  ELSE LET known == known_x(context)
           missing == SelectSeq(axis_range(context), LAMBDA x : x \notin known)
       IN Ok([i \in 1 .. Len(missing) |-> DataPoint(I64AsF64(missing[i]), 0)])

\* --------------------------------------------------------------- last_known

\* dataset_map keeping, for each key, the first pair instead of the last
dataset_map_keeping_first(dataset) ==
  LET keys == {F64AsI64(dataset[i].x) : i \in 1 .. Len(dataset)}
      first(k) == CHOOSE i \in 1 .. Len(dataset) :
                    /\ F64AsI64(dataset[i].x) = k
                    /\ \A j \in 1 .. Len(dataset) :
                         F64AsI64(dataset[j].x) = k => i <= j
  IN [k \in keys |-> dataset[first(k)].y]

\* dataset_map: collecting into a HashMap keeps, for each key, the last pair
dataset_map(dataset) ==
  LET keys == {F64AsI64(dataset[i].x) : i \in 1 .. Len(dataset)}
      last(k) == CHOOSE i \in 1 .. Len(dataset) :
                   /\ F64AsI64(dataset[i].x) = k
                   /\ \A j \in 1 .. Len(dataset) :
                        F64AsI64(dataset[j].x) = k => j <= i
  IN [k \in keys |-> dataset[last(k)].y]

RECURSIVE LastKnownLoop(_, _, _, _)
\* for x in axis_range { known: last_known = map[x]; else push (x, last_known) }
LastKnownLoop(range, i, map, last) ==
  IF i > Len(range) THEN <<>>
  ELSE IF range[i] \in DOMAIN map
       THEN LastKnownLoop(range, i + 1, map, map[range[i]])
       ELSE <<DataPoint(I64AsF64(range[i]), last)>>
              \o LastKnownLoop(range, i + 1, map, last)

\* last_known.  Vec::with_capacity(imbue_count) panics on a capacity overflow.
last_known(context) ==
  IF context.imbue_count = 0 THEN Ok(<<>>)
  ELSE IF CapacityOverflow(context.imbue_count) THEN Panic
  ELSE Ok(LastKnownLoop(axis_range(context), 1, dataset_map(context.dataset), 0))

\* ------------------------------------------------------------ state machine

\* imbue_data: the strategy the request names, applied to the context
Imbue(strategy, context) ==
  CASE strategy = "average" -> average(context)
    [] strategy = "zeroed" -> zeroed(context)
    [] strategy = "last_known" -> last_known(context)

VARIABLES
  dataset,          \* the dataset of the request
  pc,               \* "request", "context", "done" or "panicked"
  context,          \* the ImbueContext, once built
  strategy,         \* the strategy that ran, "none" before
  calls,            \* the windows average_imbue_window was called with
  result            \* the points the strategy returned

vars == <<dataset, pc, context, strategy, calls, result>>

\* the context of a request not yet built
NoContext ==
  [dataset |-> <<>>, axis_min |-> 0, axis_max |-> 0, total_count |-> 0, imbue_count |-> 0]

Init ==
  /\ dataset \in Datasets
  /\ pc = "request"
  /\ context = NoContext
  /\ strategy = "none"
  /\ calls = <<>>
  /\ result = <<>>

\* ImbueContext::from(request): ImbueContext::new(request.dataset), in a build
\* with overflow checks or in one without
New ==
  /\ pc = "request"
  /\ \E overflow_checks \in BOOLEAN :
       LET built == ImbueContext_new(dataset, overflow_checks)
       IN /\ pc' = IF built.panic THEN "panicked" ELSE "context"
          /\ context' = IF built.panic THEN NoContext ELSE built.value
  /\ UNCHANGED <<dataset, strategy, calls, result>>

\* one strategy run on the context
Run(s) ==
  /\ pc = "context"
  /\ LET r == Imbue(s, context)
     IN /\ pc' = IF r.panic THEN "panicked" ELSE "done"
        /\ result' = r.value
  /\ strategy' = s
  /\ calls' = IF s = "average" THEN AverageWindowCalls(context) ELSE <<>>
  /\ UNCHANGED <<dataset, context>>

Average == Run("average")
Zeroed == Run("zeroed")
LastKnown == Run("last_known")

Next == New \/ Average \/ Zeroed \/ LastKnown

Spec == Init /\ [][Next]_vars

\* ------------------------------------------------- vocabulary of the claims

\* the integer position of a point: its x truncated toward zero
Pos(p) == F64AsI64(p.x)

Positions(ds) == {Pos(ds[i]) : i \in 1 .. Len(ds)}

DistinctPositions(ds) ==
  \A i, j \in 1 .. Len(ds) : i # j => Pos(ds[i]) # Pos(ds[j])

\* every x is a whole number
WholePositions(ds) == \A i \in 1 .. Len(ds) : ds[i].x % Unit = 0

MinOf(S) == CHOOSE m \in S : \A n \in S : m <= n
MaxOf(S) == CHOOSE m \in S : \A n \in S : n <= m

RECURSIVE Ascending(_)
\* the elements of a finite set of integers in ascending order
Ascending(S) ==
  IF S = {} THEN <<>> ELSE <<MinOf(S)>> \o Ascending(S \ {MinOf(S)})

\* the integer positions between the least and the greatest position of a
\* non-empty dataset that no point of it occupies
MissingPositions(ds) ==
  {p \in MinOf(Positions(ds)) .. MaxOf(Positions(ds)) : p \notin Positions(ds)}

\* the point (p, 0.0) of every position of S, in ascending order
ZeroPoints(S) ==
  LET asc == Ascending(S)
  IN [i \in 1 .. Len(asc) |-> DataPoint(I64AsF64(asc[i]), 0)]

\* the points of a dataset of distinct positions, in ascending order of position
ByPosition(ds) ==
  LET asc == Ascending(Positions(ds))
  IN [i \in 1 .. Len(asc) |-> ds[CHOOSE j \in 1 .. Len(ds) : Pos(ds[j]) = asc[i]]]

\* the neighbours (a, b) of the position-sorted dataset with at least one
\* integer position strictly between them
GapPairs(ds) ==
  LET s == ByPosition(ds)
  IN SelectSeq([i \in 1 .. (IF Len(s) < 2 THEN 0 ELSE Len(s) - 1) |-> <<s[i], s[i + 1]>>],
               LAMBDA w : Pos(w[2]) - Pos(w[1]) >= 2)

\* the points of result whose position lies strictly between those of a and b
RunBetween(a, b) == SelectSeq(result, LAMBDA q : Pos(a) < Pos(q) /\ Pos(q) < Pos(b))

Returned == pc = "done"
Ended == pc \in {"done", "panicked"}

\* ----------------------------------------------------------------------- C1

\* C1: for a non-empty dataset of pairwise distinct truncated positions, a
\* strategy returns exactly imbue_count points, whose x values are the integer
\* positions of [axis_min, axis_max] missing from the dataset, each once, in
\* strictly ascending order.  Stated here on the contexts whose imbue_count did
\* not wrap around already (the wrap is C7's).
C1_FillsEveryMissingPosition ==
  (Returned /\ dataset # <<>> /\ DistinctPositions(dataset)
            /\ context.total_count >= Len(dataset)) =>
    LET missing == Ascending(MissingPositions(dataset))
    IN /\ Len(result) = context.imbue_count
       /\ Len(result) = Len(missing)
       /\ \A i \in 1 .. Len(missing) : result[i].x = I64AsF64(missing[i])

\* ----------------------------------------------------------------------- C2

\* C2 as stated: for every non-empty dataset zeroed returns (p, 0.0) for every
\* integer position p of [trunc(axis_min), trunc(axis_max)] outside known_x(),
\* ascending, and nothing else; and it returns nothing when imbue_count == 0.
\* Stated here on the datasets of whole-number x already, where total_count is
\* the number of positions of the axis range.
C2_ZeroedAsStated ==
  (Ended /\ strategy = "zeroed" /\ dataset # <<>> /\ WholePositions(dataset)) =>
    /\ Returned
    /\ result = ZeroPoints(MissingPositions(dataset))
    /\ (context.imbue_count = 0 => result = <<>>)

\* C2, amended: for every non-empty dataset zeroed returns nothing when
\* imbue_count == 0, whether or not positions are missing; otherwise it returns
\* (p, 0.0) for every integer position p of [trunc(axis_min), trunc(axis_max)]
\* outside known_x(), ascending, and nothing else.
C2_ZeroedAmended ==
  (Ended /\ strategy = "zeroed" /\ dataset # <<>>) =>
    /\ Returned
    /\ result = IF context.imbue_count = 0 THEN <<>>
                ELSE ZeroPoints(MissingPositions(dataset))

\* zeroed has filled the gap of a dataset in which two points share a position
C2_Witness ==
  /\ Returned /\ strategy = "zeroed"
  /\ ~DistinctPositions(dataset)
  /\ context.imbue_count # 0
  /\ result # <<>>

\* ----------------------------------------------------------------------- C3

\* the last point of ds, in the order given, among those at the greatest
\* position <= p
LastAtOrBefore(ds, p) ==
  LET before == {j \in 1 .. Len(ds) : Pos(ds[j]) <= p}
      best == MaxOf({Pos(ds[j]) : j \in before})
  IN ds[MaxOf({j \in before : Pos(ds[j]) = best})]

\* C3: every point (p, v) last_known returns has v equal to the y of the dataset
\* point with the greatest integer position <= p (the last such point given,
\* when several share that position), or 0.0 when no point lies at or before p,
\* whatever the order of the dataset.
C3_LastKnownValue ==
  (Returned /\ strategy = "last_known") =>
    \A i \in 1 .. Len(result) :
      LET p == Pos(result[i])
      IN IF \E j \in 1 .. Len(dataset) : Pos(dataset[j]) <= p
         THEN result[i].y = LastAtOrBefore(dataset, p).y
         ELSE result[i].y = 0

\* last_known has carried, over a gap of two positions, the value of a point
\* that was not given first
C3_Witness ==
  /\ Returned /\ strategy = "last_known"
  /\ \E i, j \in 1 .. Len(dataset) : i < j /\ Pos(dataset[i]) > Pos(dataset[j])
  /\ Len(result) >= 2
  /\ result[1].y # dataset[1].y

\* ----------------------------------------------------------------------- C4

\* the number of integer positions strictly between a and b
Between(a, b) == Pos(b) - Pos(a) - 1

\* a * b on f64, for finite a and b
FMul(a, b) ==
  LET mag == RoundMagnitude(FAbs(a) * FAbs(b), Unit)
  IN IF (a < 0) = (b < 0) THEN mag ELSE -mag

\* step of the claim: (b.y - a.y) / (missing_count + 1)
Step(a, b) == FDiv(FSub(b.y, a.y), I64AsF64(Between(a, b) + 1))

\* the run of the gap (a, b) in closed form: position a.x + k with the value
\* a.y + k * step, for k = 1 .. missing_count
ClosedFormRun(a, b) ==
  [k \in 1 .. Between(a, b) |->
     DataPoint(I64AsF64(Pos(a) + k), FAdd(a.y, FMul(I64AsF64(k), Step(a, b))))]

RECURSIVE AddTimes(_, _, _)
\* y with step added k times in succession, every sum rounded
AddTimes(y, step, k) == IF k = 0 THEN y ELSE FAdd(AddTimes(y, step, k - 1), step)

\* the run of the gap (a, b) by accumulation: position a.x + k with the value
\* (..((a.y + step) + step) ..) + step, k additions, for k = 1 .. missing_count
AccumulatedRun(a, b) ==
  [k \in 1 .. Between(a, b) |->
     DataPoint(I64AsF64(Pos(a) + k), AddTimes(a.y, Step(a, b), k))]

RECURSIVE ClosedFormRuns(_, _)
ClosedFormRuns(pairs, i) ==
  IF i > Len(pairs) THEN <<>>
  ELSE ClosedFormRun(pairs[i][1], pairs[i][2]) \o ClosedFormRuns(pairs, i + 1)

RECURSIVE AccumulatedRuns(_, _)
AccumulatedRuns(pairs, i) ==
  IF i > Len(pairs) THEN <<>>
  ELSE AccumulatedRun(pairs[i][1], pairs[i][2]) \o AccumulatedRuns(pairs, i + 1)

Monotonic(run, a, b) ==
  \A i \in 1 .. Len(run) - 1 :
    /\ b.y >= a.y => run[i].y <= run[i + 1].y
    /\ b.y <= a.y => run[i].y >= run[i + 1].y

C6_TotalCountOfTruncatedBounds ==
  (pc = "context" /\ dataset # <<>>) =>
    /\ context.total_count = MaxOf(Positions(dataset)) - MinOf(Positions(dataset)) + 1
    /\ context.total_count = Len(axis_range(context))
    /\ context.total_count >= Len(dataset) =>
         context.imbue_count = context.total_count - Len(dataset)

\* ----------------------------------------------------------------------- C7

\* C7: when total_count < len(dataset), ImbueContext::new rejects the dataset
\* with a fault: no context with a wrapped imbue_count is built and no
\* strategy runs on one.
C7_UnderflowRejected ==
  (pc # "request" /\ TotalCount(dataset) < Len(dataset)) =>
    pc = "panicked" /\ strategy = "none"

\* ----------------------------------------------------------------------- C8

\* C8: average calls average_imbue_window only with missing_count >= 1: the
\* neighbours with missing_count <= 0, at adjacent and at equal positions, are
\* filtered out before.  Stated here on the contexts whose imbue_count did not
\* wrap around already (the wrap is C7's).
C8_WindowsHaveMissingPositions ==
  context.total_count >= Len(dataset) =>
    \A i \in 1 .. Len(calls) : MissingCount(calls[i]) >= 1

\* ----------------------------------------------------------------------- C9

\* the dataset with its points in the order f
Permuted(ds, f) == [i \in 1 .. Len(ds) |-> ds[f[i]]]

\* what the request of dataset ds ends with, when strategy s is picked, in a
\* build with or without overflow checks
Outcome(ds, s, overflow_checks) ==
  LET built == ImbueContext_new(ds, overflow_checks)
  IN IF built.panic THEN [panicked |-> TRUE, ran |-> "none", value |-> <<>>]
     ELSE [panicked |-> Imbue(s, built.value).panic, ran |-> s,
           value |-> Imbue(s, built.value).value]

\* C9: for a non-empty dataset of pairwise distinct truncated positions, what
\* average, zeroed and last_known return is the same for every permutation of
\* the dataset.
C9_OrderIndependent ==
  (Ended /\ strategy # "none" /\ dataset # <<>> /\ DistinctPositions(dataset)) =>
    \A overflow_checks \in BOOLEAN :
      ImbueContext_new(dataset, overflow_checks) = Ok(context) =>
        \A f \in Permutations(1 .. Len(dataset)) :
          Outcome(Permuted(dataset, f), strategy, overflow_checks) =
            [panicked |-> pc = "panicked", ran |-> strategy, value |-> result]

\* average has filled the gaps of three points given in descending order
C9_Witness ==
  /\ Returned /\ strategy = "average" /\ DistinctPositions(dataset)
  /\ Len(dataset) = 3
  /\ Pos(dataset[1]) > Pos(dataset[2]) /\ Pos(dataset[2]) > Pos(dataset[3])
  /\ dataset[1].y # dataset[2].y /\ dataset[2].y # dataset[3].y
  /\ result # <<>>

\* ---------------------------------------------------------------------- C10

\* C10: for the empty dataset ImbueContext::new completes without a fault, and
\* each of average, zeroed and last_known completes without a fault and returns
\* the empty sequence.
C10_EmptyDatasetReturnsEmpty ==
  dataset = <<>> => pc # "panicked" /\ result = <<>>

====
